---- MODULE Spec2Model ----
(***************************************************************************)
(* A model of price_tracker.py: the configuration loader, the two value    *)
(* sources, the market-state oracle, the weekend gate and the main polling *)
(* loop with the output files it writes.                                   *)
(*                                                                         *)
(* Text is modelled as a sequence of one-character strings, so that the    *)
(* replace/float/format conversions are computed and not assumed.  A fixed *)
(* message is a sequence holding that message as its only element.         *)
(* An optional YAML key is a set: {} when the key is absent, {v} when it   *)
(* is present with value v.                                                *)
(***************************************************************************)
EXTENDS Integers, Sequences, FiniteSets, TLC

VARIABLES
    pc,              \* position of main(): see PcValues
    raw,             \* the configuration file main() was started on
    symbols_config,  \* config['symbols'] once loaded (line 185)
    sleep_interval,  \* config['settings']['sleep_interval'] (line 186)
    idx,             \* position of the for loop of line 222 in symbols_config
    cycle,           \* number of the current pass of the while loop of line 214
    now,             \* wall clock, whole seconds since a Monday 00:00 local time
    dirs,            \* directories that exist
    fs,              \* output files: path -> [exists, mtime, content]
    logged,          \* logging calls of the last step (debug calls left out)
    root_logger,     \* the root logger: [handler, level, file]
    decided,         \* this cycle: item index -> "none" | "skip" | "fetch"
    writes,          \* this cycle: item index -> number of open(filepath, "w")
    last,            \* what the last step of the for loop did (history)
    lastWrite,       \* path -> time the program last modified it, -1 if never
    errSince,        \* path -> time a scraped-fund error string was written
                     \*         that is still the content, -1 otherwise
    pending,         \* item index -> its last open() failed and the file is
                     \*               as that attempt found it
    gate,            \* weekend-gate probe: the clock reading and the result
    loaded,          \* loader probe: a configuration and load_config's result
    fetch            \* value-source probe: the outcomes and the returns

vars == <<pc, raw, symbols_config, sleep_interval, idx, cycle, now, dirs, fs,
          logged, root_logger, decided, writes, last, lastWrite, errSince,
          pending, gate, loaded, fetch>>

\* the state of main() that a call of one function on its own leaves alone
callVars == <<pc, raw, symbols_config, sleep_interval, idx, cycle, now, dirs,
              fs, decided, writes, last, lastWrite, errSince, pending>>

mainVars == <<callVars, logged, root_logger>>

-----------------------------------------------------------------------------
(* Bounds of the model *)

MaxItems == 2
MaxCycles == 2
MaxCells == 2

-----------------------------------------------------------------------------
(* Text helpers *)

Digits == <<"0", "1", "2", "3", "4", "5", "6", "7", "8", "9">>

IsDigit(c) == \E d \in 1..10 : Digits[d] = c

DigitVal(c) == (CHOOSE d \in 1..10 : Digits[d] = c) - 1

\* str.replace(a, b) for one-character a and b
Replace(s, a, b) == [i \in 1..Len(s) |-> IF s[i] = a THEN b ELSE s[i]]

\* str.replace(a, '')
Remove(s, a) == SelectSeq(s, LAMBDA c : c /= a)

RECURSIVE ToNat(_)
ToNat(s) == IF s = <<>> THEN 0
            ELSE 10 * ToNat(SubSeq(s, 1, Len(s) - 1)) + DigitVal(s[Len(s)])

RECURSIVE NatToDigits(_)
NatToDigits(n) == IF n < 10 THEN <<Digits[n + 1]>>
                  ELSE NatToDigits(n \div 10) \o <<Digits[(n % 10) + 1]>>

RECURSIVE Pow10(_)
Pow10(k) == IF k = 0 THEN 1 ELSE 10 * Pow10(k - 1)

Decimals == 6

Scale == Pow10(Decimals)

RECURSIVE ZeroPad(_, _)
ZeroPad(s, width) == IF Len(s) >= width THEN s ELSE ZeroPad(<<"0">> \o s, width)

\* f"{v:.6f}" of a non-negative v given in millionths
FormatFixed6(m) ==
    NatToDigits(m \div Scale) \o <<".">> \o ZeroPad(NatToDigits(m % Scale), Decimals)

Dots(s) == Cardinality({i \in 1..Len(s) : s[i] = "."})

\* float(s) accepts s: digits with at most one '.', at least one digit.
\* (Signs, exponents, inf/nan, underscores and blanks are outside the texts
\* the model feeds it.)
FloatOk(s) ==
    /\ \A i \in 1..Len(s) : IsDigit(s[i]) \/ s[i] = "."
    /\ Dots(s) <= 1
    /\ \E i \in 1..Len(s) : IsDigit(s[i])

\* float(s) in millionths, for FloatOk(s) with at most 6 fractional digits
FloatVal(s) ==
    LET dot == IF Dots(s) = 0 THEN Len(s) + 1
               ELSE CHOOSE i \in 1..Len(s) : s[i] = "."
        ip == SubSeq(s, 1, dot - 1)
        fp == SubSeq(s, dot + 1, Len(s))
        fp6 == SubSeq(fp \o <<"0", "0", "0", "0", "0", "0">>, 1, Decimals)
    IN ToNat(ip) * Scale + ToNat(fp6)

-----------------------------------------------------------------------------
(* get_time_to_next_monday, lines 20-33 *)

SATURDAY == 5
DAYS_OF_WEEK == 7
SecondsPerDay == 86400
MicrosPerSecond == 1000000

\* a gate that takes Saturday for a working day
get_time_to_next_monday_AfterSaturday(weekday, second, micro) ==
    IF weekday > SATURDAY
    THEN (DAYS_OF_WEEK - weekday) * SecondsPerDay - second
             - (IF micro > 0 THEN 1 ELSE 0)
    ELSE 0

\* today = datetime.now() read as (weekday, second of the day, microsecond).
\* next_monday - today is a timedelta; Python normalises its microseconds
\* into 0..999999 by borrowing a second, and int(total_seconds()) then drops
\* the microseconds.
get_time_to_next_monday(weekday, second, micro) ==
    IF weekday >= SATURDAY
    THEN LET days_until_monday == DAYS_OF_WEEK - weekday
             borrow == IF micro > 0 THEN 1 ELSE 0
             seconds_to_sleep ==
                 days_until_monday * SecondsPerDay - second - borrow
         IN seconds_to_sleep
    ELSE 0

-----------------------------------------------------------------------------
(* Value sources, lines 35-88, and the market-state oracle, lines 91-109 *)

Returned(v, lg) == [raised |-> "", value |-> v, logs |-> lg]
Raised(e, lg) == [raised |-> e, value |-> <<>>, logs |-> lg]

\* resp: what yfinance does: [kind: "error" | "empty" | "data", last: millionths]
get_current_value(resp) ==
    IF resp.kind = "error"
    THEN Returned(<<"yfinance Error: ", "e">>,
                  {"info_fetching_yfinance", "error_yfinance"})
    ELSE IF resp.kind = "empty"
    THEN Returned(<<"No data found via yfinance.">>, {"info_fetching_yfinance"})
    ELSE Returned(Replace(FormatFixed6(resp.last), ".", ","),
                  {"info_fetching_yfinance"})

\* page: what the GET and the parse find:
\*   [http: "ok" | "fail", table, tbody, row: BOOLEAN, cells: texts of the td's]
get_fund_value(page) ==
    IF page.http /= "ok"
    THEN Returned(<<"Connection Error: ", "e">>,
                  {"info_fetching_fund", "error_connection"})
    ELSE IF ~page.table
    THEN Returned(<<"Error: No historical data table found.">>,
                  {"info_fetching_fund", "error_no_table"})
    ELSE IF ~page.tbody
    THEN \* table.find('tbody') is None
         Raised("AttributeError", {"info_fetching_fund"})
    ELSE IF ~page.row
    THEN Returned(<<"Error: No recent data row found.">>,
                  {"info_fetching_fund", "error_no_row"})
    ELSE IF Len(page.cells) < 2
    THEN Raised("IndexError", {"info_fetching_fund"})    \* find_all('td')[1]
    ELSE LET vl_str == page.cells[2]
             vl_clean == Replace(Remove(vl_str, "."), ",", ".")
         IN IF FloatOk(vl_clean)
            THEN Returned(Replace(FormatFixed6(FloatVal(vl_clean)), ".", ","),
                          {"info_fetching_fund"})
            ELSE Returned(<<"Format Error: Extracted value '">> \o vl_str
                              \o <<"' is not valid.">>,
                          {"info_fetching_fund", "error_format"})

OpenStates == {"REGULAR", "PRE", "POST"}

\* an oracle that fails open
is_market_open_FailOpen(info) ==
    info.kind = "error" \/ info.marketState \in OpenStates

\* info: [kind: "error" | "ok", marketState: the field, "" when it is missing]
is_market_open(info) ==
    IF info.kind = "error" THEN FALSE
    ELSE info.marketState \in OpenStates

-----------------------------------------------------------------------------
(* load_config, lines 111-151 *)

logging_INFO == 20
logging_WARNING == 30

LOG_LEVEL_MAP ==
    [DEBUG |-> 10, INFO |-> 20, WARNING |-> 30, ERROR |-> 40, CRITICAL |-> 50]

\* str.upper() on the level names the model uses
upper(s) ==
    CASE s = "debug" -> "DEBUG"
      [] s = "info" -> "INFO"
      [] s = "Warning" -> "WARNING"
      [] s = "verbose" -> "VERBOSE"
      [] OTHER -> s

DefaultSleepInterval == 30
DefaultMaxLogSizeMb == 5
DefaultBackupCount == 3
DefaultLogFile == "./price_tracker.log"

NoSettings ==
    [sleep_interval |-> 0, log_level |-> 0, log_file |-> "",
     max_log_size_mb |-> 0, backup_count |-> 0]

Loaded(syms, st, lg) ==
    [raised |-> "", symbols |-> syms, settings |-> st, logs |-> lg]
LoadFailed(e, lg) ==
    [raised |-> e, symbols |-> <<>>, settings |-> NoSettings, logs |-> lg]

TheOne(S) == CHOOSE x \in S : TRUE

\* dict.get(key, default) / dict.setdefault(key, default) on an optional key
GetOr(opt, default) == IF opt = {} THEN default ELSE TheOne(opt)

\* c: [file: "ok" | "missing" | "badyaml",
\*     doc: "map" | "null" | "number" | "list" | "str"   the YAML document's
\*          top level
\*     symbols: {} or {[isList, items]}; of a document that is a list or a
\*          string, whether 'symbols' in config is true,
\*     settings: {} or {[shape, holds, sleep_interval, log_level, log_file,
\*                       max_log_size_mb, backup_count]}]
\* shape: "map" | "null" | "number" | "list" | "str"; holds: whether
\* 'sleep_interval' in settings is true of a list or a string
load_config(c) ==
    IF c.file = "missing"
    THEN LoadFailed("FileNotFoundError", {"error_config_not_found"})
    ELSE IF c.file = "badyaml"
    THEN LoadFailed("YAMLError", {"error_config_yaml"})
    ELSE IF c.doc \in {"null", "number"}
    THEN LoadFailed("TypeError", {})       \* 'symbols' not in None
    ELSE IF c.symbols = {}
    THEN LoadFailed("KeyError", {})
    ELSE IF c.doc /= "map"
    THEN LoadFailed("TypeError", {})       \* config['symbols'] of a list
    ELSE IF ~TheOne(c.symbols).isList
    THEN LoadFailed("TypeError", {})
    ELSE IF c.settings /= {} /\ TheOne(c.settings).shape \in {"null", "number"}
    THEN LoadFailed("TypeError", {})       \* 'sleep_interval' not in None
    ELSE IF c.settings /= {} /\ TheOne(c.settings).shape \in {"list", "str"}
    THEN IF ~TheOne(c.settings).holds
         THEN \* the warning of line 142, then the item assignment of line 143
              LoadFailed("TypeError", {"warning_sleep_interval_default"})
         ELSE LoadFailed("AttributeError", {})   \* .get of line 145
    ELSE
      LET given == c.settings /= {}
          s == TheOne(c.settings)
          si == IF given THEN s.sleep_interval ELSE {}
          ll == IF given THEN s.log_level ELSE {}
          lf == IF given THEN s.log_file ELSE {}
          ms == IF given THEN s.max_log_size_mb ELSE {}
          bc == IF given THEN s.backup_count ELSE {}
          lg == IF si = {} THEN {"warning_sleep_interval_default"} ELSE {}
      IN IF ll /= {} /\ ~TheOne(ll).isStr
         THEN LoadFailed("AttributeError", lg)   \* .upper() of a non-string
         ELSE
           LET log_level_str == upper(IF ll = {} THEN "INFO" ELSE TheOne(ll).text)
           IN Loaded(TheOne(c.symbols).items,
                     [sleep_interval |-> GetOr(si, DefaultSleepInterval),
                      log_level |-> IF log_level_str \in DOMAIN LOG_LEVEL_MAP
                                    THEN LOG_LEVEL_MAP[log_level_str]
                                    ELSE logging_INFO,
                      log_file |-> GetOr(lf, DefaultLogFile),
                      max_log_size_mb |-> GetOr(ms, DefaultMaxLogSizeMb),
                      backup_count |-> GetOr(bc, DefaultBackupCount)],
                     lg)

-----------------------------------------------------------------------------
(* The inputs of the model *)

Weekdays == 0..(DAYS_OF_WEEK - 1)

Paths == {"out/a.txt", "b.txt"}

\* os.path.dirname
dirname(p) == IF p = "out/a.txt" THEN "out" ELSE ""

Entry(sy, p, s) == [symbol |-> sy, filepath |-> p, source |-> s]

\* two instruments of different sources sharing a path, and a third elsewhere
FullEntries ==
    {Entry({"SYM"}, {"out/a.txt"}, {"investing"}),
     Entry({"SYM"}, {"out/a.txt"}, {"yahoo"}),
     Entry({"SYM"}, {"b.txt"}, {"investing"})}

\* entries that lack one of the three keys
DefectiveEntries ==
    {Entry({}, {"out/a.txt"}, {"investing"}),
     Entry({"SYM"}, {}, {"investing"}),
     Entry({"SYM"}, {"out/a.txt"}, {})}

Entries == FullEntries \cup DefectiveEntries

ListsOver(E) == UNION {[1..n -> E] : n \in 1..MaxItems}

\* the instrument lists of the main specification: every entry complete
ItemLists == ListsOver(FullEntries)

\* the instrument lists of the startup specification: some entry defective
DefectiveLists == {l \in ListsOver(Entries) : \E i \in 1..Len(l) : l[i] \in DefectiveEntries}

\* texts of a table cell
CellTexts ==
    {<<"1", ".", "2", "3", "4", ",", "5", "6">>,
     <<"1", "2", ",", "5">>,
     <<"N", "/", "A">>,
     <<"1", ",", "2", ",", "3">>,
     <<>>}

CellRows == UNION {[1..n -> CellTexts] : n \in 0..MaxCells}

Page(h, t, b, r, c) == [http |-> h, table |-> t, tbody |-> b, row |-> r, cells |-> c]

Pages ==
    {Page("fail", FALSE, FALSE, FALSE, <<>>),
     Page("ok", FALSE, FALSE, FALSE, <<>>),
     Page("ok", TRUE, FALSE, FALSE, <<>>),
     Page("ok", TRUE, TRUE, FALSE, <<>>)}
    \cup {Page("ok", TRUE, TRUE, TRUE, c) : c \in CellRows}

\* the pages the main loop is run on: one per kind of outcome
MainPages ==
    {Page("fail", FALSE, FALSE, FALSE, <<>>),
     Page("ok", TRUE, FALSE, FALSE, <<>>),
     Page("ok", TRUE, TRUE, TRUE, <<<<"x">>, <<"1", "2", ",", "5">>>>)}

Resp(k, v) == [kind |-> k, last |-> v]

Responses ==
    {Resp("error", 0), Resp("empty", 0)}
    \cup {Resp("data", v) : v \in {0, 1, 999999, 123456789, 50 * Scale}}

MainResponses == {Resp("error", 0), Resp("data", 123456789)}

Info(k, m) == [kind |-> k, marketState |-> m]

Infos ==
    {Info("error", "")}
    \cup {Info("ok", m) : m \in {"REGULAR", "PRE", "POST", "CLOSED", ""}}

WriteOutcomes == {"ok", "open_fails", "write_fails"}

SettingsOf(si, ll, lf, ms, bc) ==
    [shape |-> "map", holds |-> si /= {}, sleep_interval |-> si,
     log_level |-> ll, log_file |-> lf,
     max_log_size_mb |-> ms, backup_count |-> bc]

NonMapping(sh, h) ==
    [shape |-> sh, holds |-> h, sleep_interval |-> {}, log_level |-> {},
     log_file |-> {}, max_log_size_mb |-> {}, backup_count |-> {}]

\* settings: null, a number, and a list and a string without and with
\* 'sleep_interval' in them
NonMappings ==
    {NonMapping("null", FALSE), NonMapping("number", FALSE),
     NonMapping("list", FALSE), NonMapping("list", TRUE),
     NonMapping("str", FALSE), NonMapping("str", TRUE)}

RawConfig(f, d, sy, st) == [file |-> f, doc |-> d, symbols |-> sy, settings |-> st]

SymbolList(items) == [isList |-> TRUE, items |-> items]

NotAList == [isList |-> FALSE, items |-> <<>>]

\* configuration files that cannot be loaded, one per cause
BrokenRaws ==
    {RawConfig("missing", "map", {}, {}),
     RawConfig("badyaml", "map", {}, {}),
     RawConfig("ok", "null", {}, {}),
     RawConfig("ok", "list", {}, {}),
     RawConfig("ok", "list", {NotAList}, {}),
     RawConfig("ok", "str", {}, {}),
     RawConfig("ok", "str", {NotAList}, {}),
     RawConfig("ok", "map", {}, {}),
     RawConfig("ok", "map", {NotAList}, {}),
     RawConfig("ok", "number", {}, {})}
    \cup {RawConfig("ok", "map", {SymbolList(<<>>)}, {st}) : st \in NonMappings}

\* the sleep intervals main() is run with: the default, and a day
MainSettings == {{}, {SettingsOf({SecondsPerDay}, {}, {}, {}, {})}}

MainRaws ==
    {RawConfig("ok", "map", {SymbolList(l)}, st) :
        l \in ItemLists, st \in MainSettings}

\* configurations with something wrong in them, and the one with an empty
\* symbols list, which is loaded and run
StartupRaws ==
    BrokenRaws
    \cup {RawConfig("ok", "map", {SymbolList(l)}, {}) : l \in DefectiveLists}
    \cup {RawConfig("ok", "map", {SymbolList(<<>>)}, {})}

\* Friday 12:00: a cycle a day later falls on the weekend
StartTimes == {4 * SecondsPerDay + 43200}

\* the part of a second that datetime.now() reads at line 216 ('now' holds
\* the whole seconds of the clock)
ClockMicros == {0, 500000}

InitialContent == Replace(FormatFixed6(Scale), ".", ",")

NoFile == [exists |-> FALSE, mtime |-> 0, content |-> <<>>]

FileAt(t, c) == [exists |-> TRUE, mtime |-> t, content |-> c]

\* age of an output file found at startup: exactly a day (younger files
\* come about in the second cycle)
InitialAges == {SecondsPerDay}

-----------------------------------------------------------------------------
(* main(), lines 177-251 *)

PcValues == {"Initializing", "CycleStart", "Items", "Terminated", "Crashed"}

\* the process is in the while loop of line 214
Running == pc \in {"CycleStart", "Items"}

FreshSeconds == 24 * 3600

\* a skip rule that takes a file of exactly 24 hours for a fresh one
SkipFresh_Inclusive(exists, readable, age_seconds) ==
    exists /\ readable /\ age_seconds <= FreshSeconds

\* a skip rule with the comparison the wrong way round
SkipFresh_Inverted(exists, readable, age_seconds) ==
    exists /\ readable /\ age_seconds > FreshSeconds

\* lines 227-235: exists is os.path.exists(filepath); readable is whether
\* os.path.getmtime returned instead of raising OSError
SkipFresh(exists, readable, age_seconds) ==
    exists /\ readable /\ age_seconds < FreshSeconds

\* lines 243-248: open(filepath, "w") truncates or creates the file, then
\* f.write and the close put the value in it.  w = "open_fails": open raised;
\* w = "write_fails": the write or the close raised after open succeeded.
WriteFile(f, value, w, t) ==
    CASE w = "ok" -> FileAt(t, value)
      [] w = "write_fails" -> FileAt(t, <<>>)
      [] OTHER -> f

Outcome(crash, decision, wres, file, logs) ==
    [crash |-> crash, decision |-> decision, wres |-> wres, file |-> file,
     logs |-> logs]

\* lines 243-248 for a value source's return r
Written(r, f, t, w, lg) ==
    Outcome("", "fetch", w, WriteFile(f, r.value, w, t),
            lg \cup r.logs \cup (IF w = "ok" THEN {"info_wrote"} ELSE {"error_write"}))

\* lines 223-225: item['symbol'], item['filepath'], item['source']
KeyErrorOf(item) == item.symbol = {} \/ item.filepath = {} \/ item.source = {}

\* get_fund_value(symbol) and get_current_value(symbol) on what the main
\* loop's environment serves, computed once
FundValueOf == [pg \in MainPages |-> get_fund_value(pg)]

CurrentValueOf == [rs \in MainResponses |-> get_current_value(rs)]

\* One pass of the body of the for loop, lines 223-248, on a file f at time t.
\* in: [readable, page, info, resp, w], what the environment does.
ProcessItem(item, f, t, in) ==
    IF KeyErrorOf(item)
    THEN Outcome("KeyError", "none", "none", f, {})
    ELSE IF TheOne(item.source) = "investing"
    THEN IF SkipFresh(f.exists, in.readable, t - f.mtime)
         THEN Outcome("", "skip", "none", f, {"info_skip_fresh"})
         ELSE LET r == FundValueOf[in.page]
                  lg == IF f.exists /\ ~in.readable THEN {"warning_mtime"} ELSE {}
              IN IF r.raised /= ""
                 THEN Outcome(r.raised, "fetch", "none", f, lg \cup r.logs)
                 ELSE Written(r, f, t, in.w, lg)
    ELSE IF ~is_market_open(in.info)
    THEN Outcome("", "skip", "none", f,
                 {"info_skip_closed"}
                 \cup (IF in.info.kind = "error" THEN {"error_market_status"} ELSE {}))
    ELSE Written(CurrentValueOf[in.resp], f, t, in.w, {})

\* the root logger before any call, and after the basicConfig() that the
\* first logging.warning/error/info makes on a root logger without handlers
Unconfigured == [handler |-> "none", level |-> logging_WARNING, file |-> ""]

ToStderr == [handler |-> "stderr", level |-> logging_WARNING, file |-> ""]

\* logging.info/warning/error on the root logger: the first call on a root
\* logger without handlers adds the stderr handler
AfterLogging(lg, calls) ==
    IF calls /= {} /\ lg.handler = "none" THEN ToStderr ELSE lg

\* lines 190-195: does nothing if the root logger has a handler
basicConfig(lg, log_file, log_level) ==
    IF lg.handler /= "none" THEN lg
    ELSE [handler |-> "file", level |-> log_level, file |-> log_file]

RECURSIVE MakeDirs(_, _, _)
\* lines 203-208; mk: whether os.makedirs succeeds
MakeDirs(items, d, mk) ==
    IF items = <<>> THEN [error |-> "", dirs |-> d]
    ELSE LET item == Head(items)
         IN IF item.filepath = {} THEN [error |-> "KeyError", dirs |-> d]
            ELSE LET output_dir == dirname(TheOne(item.filepath))
                 IN IF output_dir /= "" /\ output_dir \notin d
                    THEN IF mk THEN MakeDirs(Tail(items), d \cup {output_dir}, mk)
                         ELSE [error |-> "OSError", dirs |-> d]
                    ELSE MakeDirs(Tail(items), d, mk)

NoInfo == Info("ok", "")

NoPage == Page("fail", FALSE, FALSE, FALSE, <<>>)

NoResp == Resp("error", 0)

TradingInfos == {Info("ok", m) : m \in {"REGULAR", "PRE", "POST"}}

\* What the environment does during one pass of the loop body.  Only the
\* calls the source's branch makes are drawn; the others are held fixed, and
\* so are the price and the write when the market is not trading, and the
\* outcome of getmtime when there is no file.
Inputs(src, exists) ==
    IF src = "investing"
    THEN [readable : IF exists THEN BOOLEAN ELSE {TRUE}, page : MainPages,
          info : {NoInfo}, resp : {NoResp}, w : WriteOutcomes]
    ELSE [readable : {TRUE}, page : {NoPage}, info : Infos \ TradingInfos,
          resp : {NoResp}, w : {"ok"}]
         \cup [readable : {TRUE}, page : {NoPage}, info : TradingInfos,
               resp : MainResponses, w : WriteOutcomes]

\* the market states in which an exchange trades
TradingStates == {"REGULAR", "PRE", "POST"}

NoLast ==
    [i |-> 0, source |-> "", path |-> "", crash |-> "", decision |-> "none",
     existed |-> FALSE, readable |-> FALSE, age |-> 0, lookup |-> "none",
     failed |-> FALSE, wres |-> "none", changed |-> FALSE, same |-> TRUE,
     sinceWrite |-> -1, errAge |-> -1, wasPending |-> "no"]

NoGate == [weekday |-> 0, second |-> 0, micro |-> 0, called |-> FALSE, out |-> 0]

NoLoaded == [cfg |-> RawConfig("missing", "map", {}, {}), called |-> FALSE,
             out |-> LoadFailed("", {})]

NoFetch == [page |-> NoPage, resp |-> NoResp, called |-> "none",
            out |-> Returned(<<>>, {})]

ProbesIdle == gate = NoGate /\ loaded = NoLoaded /\ fetch = NoFetch

MainIdle ==
    /\ pc = "Terminated"
    /\ raw = RawConfig("missing", "map", {}, {})
    /\ symbols_config = <<>>
    /\ sleep_interval = 0
    /\ idx = 0
    /\ cycle = 0
    /\ now = 0
    /\ dirs = {}
    /\ fs = [p \in Paths |-> NoFile]
    /\ logged = {}
    /\ root_logger = Unconfigured
    /\ decided = [i \in 1..MaxItems |-> "none"]
    /\ writes = [i \in 1..MaxItems |-> 0]
    /\ last = NoLast
    /\ lastWrite = [p \in Paths |-> -1]
    /\ errSince = [p \in Paths |-> -1]
    /\ pending = [i \in 1..MaxItems |-> "no"]

InitOn(raws) ==
    /\ pc = "Initializing"
    /\ raw \in raws
    /\ symbols_config = <<>>
    /\ sleep_interval = 0
    /\ idx = 0
    /\ cycle = 0
    /\ now \in StartTimes
    /\ ProbesIdle
    /\ \E f \in {NoFile} \cup {FileAt(now - a, InitialContent) : a \in InitialAges} :
          /\ fs = [p \in Paths |-> IF p = "out/a.txt" THEN f ELSE NoFile]
          /\ dirs = IF f.exists THEN {"out"} ELSE {}
    /\ logged = {}
    /\ root_logger = Unconfigured
    /\ decided = [i \in 1..MaxItems |-> "none"]
    /\ writes = [i \in 1..MaxItems |-> 0]
    /\ last = NoLast
    /\ lastWrite = [p \in Paths |-> -1]
    /\ errSince = [p \in Paths |-> -1]
    /\ pending = [i \in 1..MaxItems |-> "no"]

\* lines 180-212
Startup ==
    /\ pc = "Initializing"
    /\ \E mk \in BOOLEAN, op \in BOOLEAN :
         \* mk: os.makedirs succeeds; op: the log file can be opened
         LET c == load_config(raw)
             early == AfterLogging(root_logger, c.logs)
             opened == early.handler /= "none" \/ op
             inited == c.raised = "" /\ opened
             m == MakeDirs(c.symbols, dirs, mk)
             ok == inited /\ m.error = ""
             configured ==
                 IF inited
                 THEN basicConfig(early, c.settings.log_file, c.settings.log_level)
                 ELSE early
         IN /\ pc' = IF ok THEN "CycleStart" ELSE "Terminated"
            /\ symbols_config' = IF c.raised = "" THEN c.symbols ELSE <<>>
            /\ sleep_interval' = IF c.raised = "" THEN c.settings.sleep_interval ELSE 0
            /\ dirs' = IF inited THEN m.dirs ELSE dirs
            /\ cycle' = IF ok THEN 1 ELSE 0
            /\ logged' = c.logs
                          \cup (IF inited THEN {"info_initialized"} ELSE {})
                          \cup (IF inited /\ m.dirs /= dirs
                                THEN {"info_created_dir"} ELSE {})
                          \cup (IF ok THEN {} ELSE {"error_fatal"})
            \* line 211 on a root logger still without a handler
            /\ root_logger' = AfterLogging(configured,
                                           IF ok THEN {} ELSE {"error_fatal"})
    /\ UNCHANGED <<raw, idx, now, fs, decided, writes, last, lastWrite, errSince,
                   pending, gate, loaded, fetch>>

\* lines 215-221: the weekend gate at the head of a cycle
StartCycle ==
    /\ pc = "CycleStart"
    /\ cycle <= MaxCycles
    /\ \E micro \in ClockMicros :
       \E seconds_to_monday \in
            {get_time_to_next_monday((now \div SecondsPerDay) % DAYS_OF_WEEK,
                                     now % SecondsPerDay, micro)} :
          /\ now' = IF seconds_to_monday > 0 THEN now + seconds_to_monday ELSE now
          /\ logged' = {"info_cycle_start"}
                       \cup (IF seconds_to_monday > 0 THEN {"info_weekend"} ELSE {})
    /\ pc' = "Items"
    /\ idx' = 1
    /\ UNCHANGED <<raw, root_logger, symbols_config, sleep_interval, cycle,
                   dirs, fs, decided, writes, last, lastWrite, errSince, pending, gate, loaded,
                   fetch>>

\* lines 222-248: the body of the for loop on item idx
ProcessStep ==
    /\ pc = "Items"
    /\ idx <= Len(symbols_config)
    /\ \E item \in {symbols_config[idx]} :
       \E p \in {IF item.filepath = {} THEN "b.txt" ELSE TheOne(item.filepath)} :
       \E src \in {IF item.source = {} THEN "" ELSE TheOne(item.source)} :
       \E f \in {fs[p]} :
       \E in \in Inputs(src, f.exists) :
       \E o \in {ProcessItem(item, f, now, in)} :
         LET scraped == src = "investing" /\ o.crash /= "KeyError"
             quoted == src /= "investing" /\ o.crash /= "KeyError"
             read == scraped /\ f.exists /\ in.readable
             failed == /\ o.decision = "fetch"
                       /\ IF scraped
                          THEN in.page /= Page("ok", TRUE, TRUE, TRUE,
                                               <<<<"x">>, <<"1", "2", ",", "5">>>>)
                          ELSE in.resp.kind /= "data"
             modified == o.wres \in {"ok", "write_fails"}
             stale == ~f.exists \/ (read /\ now - f.mtime >= FreshSeconds)
             sharers == {k \in 1..Len(symbols_config) :
                            symbols_config[k].filepath = {p}}
         IN /\ fs' = [fs EXCEPT ![p] = o.file]
            /\ pc' = IF o.crash /= "" THEN "Crashed" ELSE "Items"
            /\ idx' = IF o.crash /= "" THEN idx ELSE idx + 1
            /\ decided' = [decided EXCEPT ![idx] = o.decision]
            /\ writes' = [writes EXCEPT ![idx] = @ + (IF o.wres = "none" THEN 0 ELSE 1)]
            /\ logged' = o.logs
            /\ lastWrite' = IF o.wres = "ok" THEN [lastWrite EXCEPT ![p] = now]
                            ELSE lastWrite
            /\ errSince' = IF modified
                           THEN [errSince EXCEPT ![p] =
                                    IF o.wres = "ok" /\ scraped /\ failed
                                    THEN now ELSE -1]
                           ELSE errSince
            /\ pending' =
                 [k \in 1..MaxItems |->
                    IF k = idx
                    THEN IF scraped /\ o.wres = "open_fails"
                         THEN (IF stale THEN "untouched" ELSE "other")
                         ELSE IF scraped /\ o.wres = "write_fails" THEN "other"
                         ELSE "no"
                    ELSE IF modified /\ k \in sharers /\ pending[k] = "untouched"
                         THEN "other"
                         ELSE pending[k]]
            /\ last' = [i |-> idx, source |-> src, path |-> p, crash |-> o.crash,
                        decision |-> o.decision,
                        existed |-> f.exists,
                        readable |-> read,
                        age |-> IF f.exists THEN now - f.mtime ELSE -1,
                        lookup |-> IF ~quoted THEN "none"
                                   ELSE IF in.info.kind = "error" THEN "error"
                                   ELSE IF in.info.marketState \in TradingStates
                                   THEN "trading"
                                   ELSE "closed",
                        failed |-> failed,
                        wres |-> o.wres,
                        changed |-> o.file.content /= f.content,
                        same |-> o.file = f,
                        sinceWrite |-> IF lastWrite[p] = -1 THEN -1
                                       ELSE now - lastWrite[p],
                        errAge |-> IF errSince[p] = -1 THEN -1
                                   ELSE now - errSince[p],
                        wasPending |-> pending[idx]]
    /\ UNCHANGED <<raw, root_logger, symbols_config, sleep_interval, cycle, now,
                   dirs, gate, loaded, fetch>>

\* lines 250-251: the sleep at the end of a cycle.  The cycle's history
\* ends with it.
EndCycle ==
    /\ pc = "Items"
    /\ idx > Len(symbols_config)
    /\ now' = now + sleep_interval
    /\ cycle' = cycle + 1
    /\ pc' = "CycleStart"
    /\ logged' = {"info_cycle_complete"}
    /\ decided' = [i \in 1..MaxItems |-> "none"]
    /\ writes' = [i \in 1..MaxItems |-> 0]
    /\ last' = NoLast
    /\ UNCHANGED <<raw, root_logger, symbols_config, sleep_interval, idx, dirs, fs, lastWrite,
                   errSince, pending, gate, loaded, fetch>>

Next == Startup \/ StartCycle \/ ProcessStep \/ EndCycle

Init == InitOn(MainRaws)

Spec == Init /\ [][Next]_vars

\* main() started on the configurations of StartupRaws
InitStartup == InitOn(StartupRaws)

SpecStartup == InitStartup /\ [][Next]_vars

-----------------------------------------------------------------------------
(* The pure functions on their own: each probe draws an input and applies
   the function once. *)

GateSeconds == {0, 1, 36000, SecondsPerDay - 2, SecondsPerDay - 1}

GateMicros == {0, 1, 500000, MicrosPerSecond - 1}

InitGate ==
    /\ MainIdle
    /\ loaded = NoLoaded
    /\ fetch = NoFetch
    /\ gate \in [weekday : Weekdays, second : GateSeconds, micro : GateMicros,
                 called : {FALSE}, out : {0}]

GateCall ==
    /\ ~gate.called
    /\ gate' = [gate EXCEPT !.called = TRUE,
                            !.out = get_time_to_next_monday(gate.weekday,
                                                            gate.second,
                                                            gate.micro)]
    /\ UNCHANGED <<mainVars, loaded, fetch>>

NextGate == GateCall

SpecGate == InitGate /\ [][NextGate]_vars

LevelTexts == {"debug", "INFO", "Warning", "CRITICAL", "verbose"}

LevelValues ==
    {{}} \cup {{[isStr |-> TRUE, text |-> t]} : t \in LevelTexts}
         \cup {{[isStr |-> FALSE, text |-> "10"]}}

ConfigSettings ==
    {{}} \cup {{st} : st \in NonMappings}
    \cup {{SettingsOf(si, ll, lf, ms, bc)} :
             si \in {{}, {0}, {60}}, ll \in LevelValues,
             lf \in {{}, {"/var/log/tracker.log"}}, ms \in {{}, {10}},
             bc \in {{}, {0}}}

ConfigRaws ==
    BrokenRaws
    \cup {RawConfig("ok", "map",
                    {SymbolList(<<Entry({"SYM"}, {"b.txt"}, {"yahoo"})>>)}, st) :
             st \in ConfigSettings}

InitConfig ==
    /\ MainIdle
    /\ gate = NoGate
    /\ fetch = NoFetch
    /\ loaded \in [cfg : ConfigRaws, called : {FALSE}, out : {LoadFailed("", {})}]

LoadCall ==
    /\ ~loaded.called
    /\ \E out \in {load_config(loaded.cfg)} :
          /\ loaded' = [loaded EXCEPT !.called = TRUE, !.out = out]
          /\ logged' = out.logs
          /\ root_logger' = AfterLogging(root_logger, out.logs)
    /\ UNCHANGED <<callVars, gate, fetch>>

NextConfig == LoadCall

SpecConfig == InitConfig /\ [][NextConfig]_vars

InitFetch ==
    /\ MainIdle
    /\ gate = NoGate
    /\ loaded = NoLoaded
    /\ fetch \in [page : Pages, resp : Responses, called : {"none"},
                  out : {Returned(<<>>, {})}]

FundCall ==
    /\ fetch.called = "none"
    /\ \E out \in {get_fund_value(fetch.page)} :
          /\ fetch' = [fetch EXCEPT !.called = "get_fund_value", !.out = out]
          /\ logged' = out.logs
          /\ root_logger' = AfterLogging(root_logger, out.logs)
    /\ UNCHANGED <<callVars, gate, loaded>>

CurrentCall ==
    /\ fetch.called = "none"
    /\ \E out \in {get_current_value(fetch.resp)} :
          /\ fetch' = [fetch EXCEPT !.called = "get_current_value", !.out = out]
          /\ logged' = out.logs
          /\ root_logger' = AfterLogging(root_logger, out.logs)
    /\ UNCHANGED <<callVars, gate, loaded>>

NextFetch == FundCall \/ CurrentCall

SpecFetch == InitFetch /\ [][NextFetch]_vars

-----------------------------------------------------------------------------
(* The claims *)

\* the last step processed an instrument of the scraped-fund source
ScrapedStep == last.source = "investing" /\ last.crash /= "KeyError"

\* the last step processed an instrument of the market-quote source
QuotedStep == last.source = "yahoo" /\ last.crash /= "KeyError"

\* getmtime raised on a file that exists
Unreadable == last.existed /\ ~last.readable

IsErrorText(c) == c /= <<>> /\ ~IsDigit(c[1])

\* C1: in a cycle every instrument the skip rules let through gets exactly
\* one write to its file, and every skipped instrument gets none and leaves
\* its file as it was.
C1_OneWritePerFetched ==
    \A i \in 1..MaxItems :
        /\ decided[i] = "fetch" => writes[i] = 1
        /\ decided[i] = "skip" => writes[i] = 0
        /\ (decided[i] = "skip" /\ last.i = i) => last.same

\* C2: a failed fetch or a failed write of one instrument never ends the
\* process: the loop goes on to the next instrument.
C2_FailureIsolated ==
    (last.failed \/ last.wres \in {"open_fails", "write_fails"})
        => pc /= "Crashed"

\* C3 as stated: a scraped-fund instrument is not fetched when its file
\* exists and its modification time is less than 24 hours old; it is fetched
\* when the file is 24 hours old or older, or absent.
C3_SkipWheneverFresh ==
    ScrapedStep =>
        /\ (last.existed /\ last.age < SecondsPerDay) => last.decision = "skip"
        /\ (~last.existed \/ last.age >= SecondsPerDay)
              => last.decision = "fetch"

\* C3 amended: a scraped-fund instrument is not fetched when its file exists
\* and its modification time can be read and is less than 24 hours old; it
\* is fetched when the file is 24 hours old or older, absent, or its
\* modification time cannot be read.
C3_ScrapedSkipRule ==
    ScrapedStep =>
        /\ (last.existed /\ last.readable /\ last.age < SecondsPerDay)
              => last.decision = "skip"
        /\ (~last.existed \/ ~last.readable \/ last.age >= SecondsPerDay)
              => last.decision = "fetch"

\* a file written 30 seconds ago whose modification time cannot be read
C3_Witness ==
    /\ ScrapedStep
    /\ Unreadable
    /\ last.age = DefaultSleepInterval
    /\ last.crash = ""
    /\ last.decision = "fetch"
    /\ last.wres = "ok"

\* C4: a market-quote instrument is fetched only when the lookup succeeded
\* and marketState is REGULAR, PRE or POST; otherwise, a failed lookup
\* included, nothing is fetched or written, the file is untouched and the
\* process goes on.
C4_MarketClosedSkips ==
    QuotedStep =>
        /\ last.decision = "fetch" <=> last.lookup = "trading"
        /\ last.lookup \in {"closed", "error"}
              => /\ last.decision = "skip"
                 /\ last.wres = "none"
                 /\ last.same
                 /\ last.crash = ""
                 /\ pc /= "Crashed"

C4_Witness ==
    /\ QuotedStep
    /\ last.lookup = "error"
    /\ last.existed
    /\ last.decision = "skip"
    /\ fs[last.path].content = InitialContent

\* C5: both value sources return a string for every outcome of the external
\* source and never raise.
C5_SourcesNeverRaise ==
    fetch.called /= "none" => fetch.out.raised = "" /\ fetch.out.value /= <<>>

\* a list entry lacks one of symbol, filepath, source
HasDefectiveEntry(l) == \E i \in 1..Len(l) : l[i] \in DefectiveEntries

InvalidConfig(c) ==
    \/ c \in BrokenRaws
    \/ c.symbols /= {} /\ HasDefectiveEntry(TheOne(c.symbols).items)

\* C6: a configuration that cannot be loaded, or has an entry lacking a
\* required field, ends the process at startup, before the loop is entered;
\* once in the loop the process is never ended by its own error.
C6_StartupFailureFatal ==
    /\ InvalidConfig(raw) => pc \in {"Initializing", "Terminated"}
    /\ pc /= "Crashed"

\* C7: a failed fetch leaves the source's error string in the file, a failed
\* write leaves the file as it was, and either way the loop continues.
C7_FailureOutcome ==
    /\ last.failed =>
          /\ pc /= "Crashed"
          /\ last.wres = "ok" => IsErrorText(fs[last.path].content)
    /\ last.wres \in {"open_fails", "write_fails"} => last.same /\ pc /= "Crashed"

\* the moment the gate aims at, in seconds after today's midnight
MondayMidnight(weekday) == (DAYS_OF_WEEK - weekday) * SecondsPerDay

\* n is the time from (second, micro) to Monday 00:00 with the fraction of a
\* second dropped
WholeSecondsToMonday(n, weekday, second, micro) ==
    LET rest == MondayMidnight(weekday) - second - n
    IN /\ rest \in 0..1
       /\ micro <= rest * MicrosPerSecond
       /\ rest * MicrosPerSecond < micro + MicrosPerSecond

\* C8 as stated: on a Saturday or Sunday the gate returns the seconds to
\* Monday 00:00, a value > 0; on Monday to Friday it returns 0.
C8_GatePositiveOnWeekend ==
    gate.called =>
        IF gate.weekday >= 5
        THEN /\ gate.out > 0
             /\ WholeSecondsToMonday(gate.out, gate.weekday, gate.second, gate.micro)
        ELSE gate.out = 0

\* C8 amended: on a Saturday or Sunday the gate returns the whole seconds to
\* Monday 00:00, the fraction dropped: > 0 unless less than a second is left
\* (after Sunday 23:59:59.000000), where it is 0; on Monday to Friday 0.
C8_GateWholeSeconds ==
    gate.called =>
        IF gate.weekday >= 5
        THEN /\ WholeSecondsToMonday(gate.out, gate.weekday, gate.second, gate.micro)
             /\ gate.out = 0 <=> /\ gate.weekday = 6
                                 /\ gate.second = SecondsPerDay - 1
                                 /\ gate.micro > 0
        ELSE gate.out = 0

\* Saturday 10:00:00.5: 38 hours less half a second
C8_Witness ==
    /\ gate.called
    /\ gate.weekday = 5
    /\ gate.second = 36000
    /\ gate.micro = 500000
    /\ gate.out = 38 * 3600 - 1

\* the configuration has a symbols list
ValidConfig(c) ==
    /\ c.file = "ok"
    /\ c.doc = "map"
    /\ c.symbols /= {}
    /\ TheOne(c.symbols).isList

\* the settings are absent or a mapping, the log level absent or a string
WellTypedSettings(c) ==
    c.settings /= {} =>
        /\ TheOne(c.settings).shape = "map"
        /\ \A l \in TheOne(c.settings).log_level : l.isStr

\* the logging constant of a level name, whatever its case
LevelOf(text) ==
    CASE text = "debug" -> 10
      [] text = "INFO" -> 20
      [] text = "Warning" -> 30
      [] text = "CRITICAL" -> 50
      [] OTHER -> 20

Recognized(text) == text \in {"debug", "INFO", "Warning", "CRITICAL"}

GivenSetting(c, pick(_)) == IF c.settings = {} THEN {} ELSE pick(TheOne(c.settings))

PickSleep(st) == st.sleep_interval
PickLevel(st) == st.log_level
PickFile(st) == st.log_file
PickSize(st) == st.max_log_size_mb
PickBackup(st) == st.backup_count

DefaultsFilled(c, out) ==
    /\ out.raised = ""
    /\ out.settings.sleep_interval \in
          (IF GivenSetting(c, PickSleep) = {} THEN {30} ELSE GivenSetting(c, PickSleep))
    /\ out.settings.log_file \in
          (IF GivenSetting(c, PickFile) = {} THEN {"./price_tracker.log"}
           ELSE GivenSetting(c, PickFile))
    /\ out.settings.max_log_size_mb \in
          (IF GivenSetting(c, PickSize) = {} THEN {5} ELSE GivenSetting(c, PickSize))
    /\ out.settings.backup_count \in
          (IF GivenSetting(c, PickBackup) = {} THEN {3} ELSE GivenSetting(c, PickBackup))
    /\ out.settings.log_level \in
          (IF GivenSetting(c, PickLevel) = {} THEN {20}
           ELSE {LevelOf(l.text) : l \in GivenSetting(c, PickLevel)})

UnrecognizedLevel(c) ==
    \E l \in GivenSetting(c, PickLevel) : l.isStr /\ ~Recognized(l.text)

\* C9: every configuration with a symbols list (its settings absent or a
\* mapping, its log_level absent or a string) loads with the defaults filled
\* in and the given settings kept, and an unrecognized log_level gives INFO
\* and a warning line.
C9_DefaultsAndLevelWarning ==
    (loaded.called /\ ValidConfig(loaded.cfg) /\ WellTypedSettings(loaded.cfg)) =>
        /\ DefaultsFilled(loaded.cfg, loaded.out)
        /\ UnrecognizedLevel(loaded.cfg) =>
              \E w \in loaded.out.logs : w /= "warning_sleep_interval_default"

\* C10 as stated: in the cycles that follow a successful write to a scraped
\* fund's file no scraping fetch is made for it until 24 hours have passed,
\* so an error string written for it stays for 24 hours; after a failed
\* write the fetch is made again in the next cycle.  (The clock advances
\* between cycles only, so a positive age places the write in an earlier
\* cycle.)
C10_StickyForADay ==
    /\ (ScrapedStep /\ last.decision = "fetch" /\ last.crash = ""
                    /\ last.sinceWrite > 0)
          => last.sinceWrite >= SecondsPerDay
    /\ (last.changed /\ last.errAge > 0) => last.errAge >= SecondsPerDay
    /\ (ScrapedStep /\ last.wasPending /= "no") => last.decision = "fetch"

\* C10 amended: within 24 hours of a successful write to a scraped fund's
\* file a scraping fetch is made for it only when the file's modification
\* time cannot be read; an error string written for it is replaced within 24
\* hours only by an instrument of another source sharing the path or after
\* such an unreadable modification time; after a failed write that left the
\* file as it was found, absent or at least 24 hours old, the fetch is made
\* again the next time the instrument is processed unless the file has been
\* written in between.
C10_StickyUnlessUnreadable ==
    /\ (ScrapedStep /\ last.decision = "fetch" /\ ~Unreadable)
          => (last.sinceWrite = -1 \/ last.sinceWrite >= SecondsPerDay)
    /\ (last.changed /\ last.errAge \in 0..(SecondsPerDay - 1))
          => (last.source /= "investing" \/ Unreadable)
    /\ (ScrapedStep /\ last.wasPending = "untouched") => last.decision = "fetch"

\* an error string written 30 seconds ago keeps the fund from being fetched
C10_Witness ==
    /\ ScrapedStep
    /\ last.decision = "skip"
    /\ last.errAge = 30
    /\ last.sinceWrite = 30
    /\ IsErrorText(fs[last.path].content)

====
